---- MODULE Spec2Model ----
(***************************************************************************)
(* Model of src/main.py: an interactive loop that turns a question into    *)
(* SQL with a language model, executes it on a PostgreSQL connection,      *)
(* has the model phrase the rows as an answer, speaks and prints it.       *)
(*                                                                         *)
(* Text is modelled as a sequence of one-character strings, so that        *)
(* str.lower() and re.sub() are computed character by character.           *)
(***************************************************************************)
EXTENDS Integers, Sequences, FiniteSets, TLC

VARIABLES
    pc,          \* position of main(): see PcValues
    conn,        \* "unset" | "None" | "open" | "closed"
    closeCount,  \* number of conn.close() calls made
    schema,      \* value bound to schema in main()
    turns,       \* number of input() prompts issued so far
    user_input,  \* last line read by input()
    response,    \* response.text of the last generate_content call in generate_sql_query
    sql_query,   \* value bound to sql_query in main()
    result,      \* value bound to result in main()
    answer,      \* value bound to answer in main()
    outcome,     \* per turn: how each call of the turn ended ("none" = not called)
    printed,     \* lines printed since the last prompt (or since start-up)
    dbLog        \* every statement main() has passed to cur.execute

vars == <<pc, conn, closeCount, schema, turns, user_input, response,
          sql_query, result, answer, outcome, printed, dbLog>>

-----------------------------------------------------------------------------
(* Bounds *)

MaxTurns == 2

MaxPieces == 4

-----------------------------------------------------------------------------
(* Text helpers *)

UpperChars == <<"A","B","C","D","E","F","G","H","I","J","K","L","M",
                "N","O","P","Q","R","S","T","U","V","W","X","Y","Z">>

LowerChars == <<"a","b","c","d","e","f","g","h","i","j","k","l","m",
                "n","o","p","q","r","s","t","u","v","w","x","y","z">>

LowerChar(c) ==
    IF \E i \in 1..Len(UpperChars) : UpperChars[i] = c
    THEN LowerChars[CHOOSE i \in 1..Len(UpperChars) : UpperChars[i] = c]
    ELSE c

\* str.lower()
Lower(s) == [i \in 1..Len(s) |-> LowerChar(s[i])]

\* s[i:i+len(t)] == t
MatchesAt(s, i, t) ==
    /\ i + Len(t) - 1 <= Len(s)
    /\ \A k \in 1..Len(t) : s[i + k - 1] = t[k]

Contains(s, t) == \E i \in 1..Len(s) : MatchesAt(s, i, t)

-----------------------------------------------------------------------------
(* generate_sql_query: re.sub of the fence pattern, line 116 *)

\* the backtick character (U+0060), written by name because the TLA+ lexer
\* reserves it; every other character stands for itself
BT == "<backtick>"

NL == "\n"


FenceSql == <<BT, BT, BT, "s", "q", "l", NL>>

Fence == <<BT, BT, BT>>

\* the alternatives of the pattern, in the order the regex engine tries them
Alternatives == <<FenceSql, Fence>>

\* length of the match starting at position i, 0 if there is none
MatchLenAt(s, i) ==
    IF \E a \in 1..Len(Alternatives) : MatchesAt(s, i, Alternatives[a])
    THEN Len(Alternatives[CHOOSE a \in 1..Len(Alternatives) :
                 /\ MatchesAt(s, i, Alternatives[a])
                 /\ \A b \in 1..(a - 1) : ~MatchesAt(s, i, Alternatives[b])])
    ELSE 0

RECURSIVE ReSubFrom(_, _)
ReSubFrom(s, i) ==
    IF i > Len(s) THEN <<>>
    ELSE IF MatchLenAt(s, i) > 0 THEN ReSubFrom(s, i + MatchLenAt(s, i))
    ELSE <<s[i]>> \o ReSubFrom(s, i + 1)

\* re.sub(pattern, "", text): leftmost non-overlapping matches removed
ReSub(text) == ReSubFrom(text, 1)

-----------------------------------------------------------------------------
(* Values the environment can supply *)

Exit == <<"e","x","i","t">>

\* lines typed at the prompt
Inputs == { <<"e","x","i","t">>, <<"E","X","I","T">>, <<"E","x","i","t">>,
            <<"e","X","i","T">>, <<"e","x","i","t"," ">>, <<"e","x">>,
            <<"h","o","w"," ","m","a","n","y","?">> }

Failed == <<"F","a","i","l","e","d">>

Select1 == <<"S","E","L","E","C","T"," ","1">>

\* response.text values the language model can return for the SQL prompt
Responses == { Select1,
               FenceSql \o Select1 \o <<NL>> \o Fence,
               Select1 \o <<";","D","R","O","P"," ","T","A","B","L","E"," ","t">>,
               <<"s","e","l","e","c","t"," ","1",";","d","r","o","p"," ","t","a","b","l","e"," ","t">>,
               <<"D","E","L","E","T","E"," ","F","R","O","M"," ","t">>,
               Failed }

None == [tag |-> "None", rows |-> <<>>]
Rows(r) == [tag |-> "rows", rows |-> r]

\* what cur.execute / cur.fetchall can do: raise, or return a list of rows
DbOutcomes == { [raised |-> TRUE, value |-> None],
                [raised |-> FALSE, value |-> Rows(<<>>)],
                [raised |-> FALSE, value |-> Rows(<< <<42>> >>)] }

SchemaRow == <<"customers", "id", "integer", "None">>

SchemaOutcomes == { [raised |-> TRUE, value |-> None],
                    [raised |-> FALSE, value |-> Rows(<<>>)],
                    [raised |-> FALSE, value |-> Rows(<<SchemaRow>>)] }

\* text the language model can return for the analysis prompt
Answers == { "There are 42 customers.", "No data was found." }

Steps == {"generate", "execute", "analyze", "speak"}

NoCalls == [s \in Steps |-> "none"]

PcValues == {"Start", "GetSchema", "AwaitingInput", "Synthesizing", "Executing",
             "Interpreting", "Rendering", "Closing", "Closed", "Returned", "Crashed"}

-----------------------------------------------------------------------------
(* State machine of main() *)

Init ==
    /\ pc = "Start"
    /\ conn = "unset"
    /\ closeCount = 0
    /\ schema = None
    /\ turns = 0
    /\ user_input = <<>>
    /\ response = <<>>
    /\ sql_query = <<>>
    /\ result = None
    /\ answer = ""
    /\ outcome = NoCalls
    /\ printed = <<>>
    /\ dbLog = {}

\* get_db_connection() and the early return of main() when it yields None
Connect ==
    /\ pc = "Start"
    /\ \E ok \in BOOLEAN :
          IF ok
          THEN /\ conn' = "open"
               /\ printed' = Append(printed, "Database connection successful.")
               /\ pc' = "GetSchema"
          ELSE /\ conn' = "None"
               /\ printed' = Append(printed, "Database connection failed")
               /\ pc' = "Returned"
    /\ UNCHANGED <<closeCount, schema, turns, user_input, response, sql_query,
                   result, answer, outcome, dbLog>>

\* get_database_schema(conn): the value returned and the line printed, if any
get_database_schema(c, o) ==
    IF c = "None"
    THEN [value |-> None, print |-> <<"Cannot get schema: No database connection.">>]
    ELSE IF o.raised
    THEN [value |-> None, print |-> <<"An error occurred while fetching the schema">>]
    ELSE [value |-> o.value, print |-> <<>>]

\* schema = get_database_schema(conn), then the loop is entered
GetSchema ==
    /\ pc = "GetSchema"
    /\ \E o \in SchemaOutcomes :
          /\ schema' = get_database_schema(conn, o).value
          /\ printed' = printed \o get_database_schema(conn, o).print
    /\ pc' = "AwaitingInput"
    /\ UNCHANGED <<conn, closeCount, turns, user_input, response, sql_query,
                   result, answer, outcome, dbLog>>

\* IsExit with the call of lower() missing
IsExitCaseSensitive(s) == s = Exit

\* user_input.lower() == "exit"
IsExit(s) == Lower(s) = Exit

\* user_input = input(...); if user_input.lower() == "exit": break
ReadInput ==
    /\ pc = "AwaitingInput"
    /\ turns < MaxTurns
    /\ \E line \in Inputs :
          /\ user_input' = line
          /\ pc' = IF IsExit(line) THEN "Closing" ELSE "Synthesizing"
    /\ turns' = turns + 1
    /\ outcome' = NoCalls
    /\ printed' = <<>>
    /\ UNCHANGED <<conn, closeCount, schema, response, sql_query, result,
                   answer, dbLog>>

\* sql_query = generate_sql_query(model, user_input, schema) and the test
\* against "Failed": generate_content either raises, and nothing in main()
\* catches it, or returns text from which the fence pattern is removed
GenerateSql ==
    /\ pc = "Synthesizing"
    /\ \/ /\ outcome' = [outcome EXCEPT !["generate"] = "raised"]
          /\ pc' = "Crashed"
          /\ UNCHANGED <<response, sql_query, printed>>
       \/ \E text \in Responses :
             /\ outcome' = [outcome EXCEPT !["generate"] = "returned"]
             /\ response' = text
             /\ sql_query' = ReSub(text)
             /\ IF ReSub(text) = Failed
                THEN /\ printed' = Append(printed, "Not able to generate SQL query")
                     /\ pc' = "AwaitingInput"
                ELSE /\ printed' = printed
                     /\ pc' = "Executing"
    /\ UNCHANGED <<conn, closeCount, schema, turns, user_input, result, answer, dbLog>>

\* Execute with the continue of the except clause missing
ExecuteNoContinue ==
    /\ pc = "Executing"
    /\ dbLog' = dbLog \cup {sql_query}
    /\ \E o \in DbOutcomes :
          IF o.raised
          THEN /\ outcome' = [outcome EXCEPT !["execute"] = "raised"]
               /\ printed' = Append(printed, "Error executing query")
               /\ pc' = "Interpreting"
               /\ result' = result
          ELSE /\ outcome' = [outcome EXCEPT !["execute"] = "returned"]
               /\ printed' = printed
               /\ pc' = "Interpreting"
               /\ result' = o.value
    /\ UNCHANGED <<conn, closeCount, schema, turns, user_input, response,
                   sql_query, answer>>

\* Execute with an empty fetchall() handled like a failed execution
ExecuteEmptyIsError ==
    /\ pc = "Executing"
    /\ dbLog' = dbLog \cup {sql_query}
    /\ \E o \in DbOutcomes :
          IF o.raised
          THEN /\ outcome' = [outcome EXCEPT !["execute"] = "raised"]
               /\ printed' = Append(printed, "Error executing query")
               /\ pc' = "AwaitingInput"
               /\ result' = result
          ELSE /\ outcome' = [outcome EXCEPT !["execute"] = "returned"]
               /\ IF o.value.rows = <<>>
                  THEN /\ printed' = Append(printed, "Error executing query")
                       /\ pc' = "AwaitingInput"
                  ELSE /\ printed' = printed
                       /\ pc' = "Interpreting"
               /\ result' = o.value
    /\ UNCHANGED <<conn, closeCount, schema, turns, user_input, response,
                   sql_query, answer>>

\* the try block of main(): cur.execute(sql_query); result = cur.fetchall(),
\* with except Exception: print and continue
Execute ==
    /\ pc = "Executing"
    /\ dbLog' = dbLog \cup {sql_query}
    /\ \E o \in DbOutcomes :
          IF o.raised
          THEN /\ outcome' = [outcome EXCEPT !["execute"] = "raised"]
               /\ printed' = Append(printed, "Error executing query")
               /\ pc' = "AwaitingInput"
               /\ result' = result
          ELSE /\ outcome' = [outcome EXCEPT !["execute"] = "returned"]
               /\ printed' = printed
               /\ pc' = "Interpreting"
               /\ result' = o.value
    /\ UNCHANGED <<conn, closeCount, schema, turns, user_input, response,
                   sql_query, answer>>

\* answer = analyze_sql_output(model, user_input, result): generate_content
\* either raises, and nothing in main() catches it, or returns the answer
Analyze ==
    /\ pc = "Interpreting"
    /\ \/ /\ outcome' = [outcome EXCEPT !["analyze"] = "raised"]
          /\ pc' = "Crashed"
          /\ answer' = answer
       \/ \E text \in Answers :
             /\ outcome' = [outcome EXCEPT !["analyze"] = "returned"]
             /\ answer' = text
             /\ pc' = "Rendering"
    /\ UNCHANGED <<conn, closeCount, schema, turns, user_input, response,
                   sql_query, result, printed, dbLog>>

\* speak_text(answer, ...) followed by print("Output:", answer): an error
\* of the speech client or of the audio device propagates out of main()
Speak ==
    /\ pc = "Rendering"
    /\ \/ /\ outcome' = [outcome EXCEPT !["speak"] = "raised"]
          /\ pc' = "Crashed"
          /\ printed' = printed
       \/ /\ outcome' = [outcome EXCEPT !["speak"] = "returned"]
          /\ printed' = Append(printed, "Output: " \o answer)
          /\ pc' = "AwaitingInput"
    /\ UNCHANGED <<conn, closeCount, schema, turns, user_input, response,
                   sql_query, result, answer, dbLog>>

\* after the loop: conn.close() and the closing message
Close ==
    /\ pc = "Closing"
    /\ conn' = "closed"
    /\ closeCount' = closeCount + 1
    /\ printed' = Append(printed, "Database connection closed.")
    /\ pc' = "Closed"
    /\ UNCHANGED <<schema, turns, user_input, response, sql_query, result,
                   answer, outcome, dbLog>>

Next ==
    \/ Connect
    \/ GetSchema
    \/ ReadInput
    \/ GenerateSql
    \/ Execute
    \/ Analyze
    \/ Speak
    \/ Close

Spec == Init /\ [][Next]_vars

-----------------------------------------------------------------------------
(* generate_sql_query on its own: the substitution applied to responses    *)
(* assembled from runs of backticks, language tags, line breaks and a      *)
(* statement                                                               *)

Pieces == { <<BT>>, <<BT, BT>>, Fence,
            <<"s","q","l",NL>>, <<"S","Q","L",NL>>, <<NL>>, Select1 }

RECURSIVE Concat(_)
Concat(ps) == IF ps = <<>> THEN <<>> ELSE Head(ps) \o Concat(Tail(ps))

SubInputs == { Concat(ps) : ps \in UNION { [1..n -> Pieces] : n \in 0..MaxPieces } }

InitSub ==
    /\ pc = "Synthesizing"
    /\ conn = "open"
    /\ closeCount = 0
    /\ schema = Rows(<<SchemaRow>>)
    /\ turns = 1
    /\ user_input = <<"h","o","w"," ","m","a","n","y","?">>
    /\ response \in SubInputs
    /\ sql_query = <<>>
    /\ result = None
    /\ answer = ""
    /\ outcome = NoCalls
    /\ printed = <<>>
    /\ dbLog = {}

\* the return statement of generate_sql_query for the response at hand
Substitute ==
    /\ pc = "Synthesizing"
    /\ sql_query' = ReSub(response)
    /\ outcome' = [outcome EXCEPT !["generate"] = "returned"]
    /\ pc' = "Substituted"
    /\ UNCHANGED <<conn, closeCount, schema, turns, user_input, response,
                   result, answer, printed, dbLog>>

NextSub == Substitute

SpecSub == InitSub /\ [][NextSub]_vars

-----------------------------------------------------------------------------
(* Vocabulary of the properties *)

ForbiddenTokens == { <<"I","N","S","E","R","T">>, <<"U","P","D","A","T","E">>,
                     <<"D","E","L","E","T","E">>, <<"D","R","O","P">>,
                     <<"A","L","T","E","R">> }

\* q contains one of the data-modifying tokens, in any casing
HasForbiddenToken(q) == \E t \in ForbiddenTokens : Contains(Lower(q), Lower(t))

\* s is the word exit, each letter in either case
ExitAnyCase(s) ==
    /\ Len(s) = 4
    /\ s[1] \in {"e", "E"}
    /\ s[2] \in {"x", "X"}
    /\ s[3] \in {"i", "I"}
    /\ s[4] \in {"t", "T"}

Printed(line) == \E i \in 1..Len(printed) : printed[i] = line

Acquired == conn \in {"open", "closed"}

Left == pc \in {"Closed", "Returned", "Crashed"}

IsSpace(c) == c \in {" ", NL}

RECURSIVE Trim(_)
Trim(s) ==
    IF s = <<>> THEN s
    ELSE IF IsSpace(Head(s)) THEN Trim(Tail(s))
    ELSE IF IsSpace(s[Len(s)]) THEN Trim(SubSeq(s, 1, Len(s) - 1))
    ELSE s

\* language tags of a fence opener: sql, SQL, none
FenceTags == { <<"s","q","l">>, <<"S","Q","L">>, <<>> }

-----------------------------------------------------------------------------
(* Properties *)

\* C1: a synthesized statement that contains INSERT, UPDATE, DELETE, DROP or
\* ALTER (any casing, anywhere) is never passed to cur.execute; the turn ends
\* in AwaitingInput without a database call.
C1_ForbiddenNeverExecuted ==
    /\ \A q \in dbLog : ~HasForbiddenToken(q)
    /\ (outcome["generate"] = "returned" /\ HasForbiddenToken(sql_query))
          => (pc = "AwaitingInput" /\ outcome["execute"] = "none")

\* C2: once a handle was obtained, every way of leaving main() has released
\* it exactly once.
C2_ReleasedOnEveryExit ==
    /\ closeCount <= 1
    /\ (Left /\ Acquired) => (closeCount = 1 /\ conn = "closed")

\* C3: AwaitingInput is reached, and a synthesis request made, only with a
\* database handle and a schema snapshot that were obtained successfully.
C3_LoopOnlyWithSchema ==
    /\ pc = "AwaitingInput" => (conn = "open" /\ schema # None)
    /\ turns > 0 => schema # None
    /\ outcome["generate"] # "none" => schema # None

\* C4: when executing the statement raises, the error is printed, neither
\* analyze_sql_output nor speak_text is called in that turn, the session is
\* not terminated and the loop is back at the prompt for the next input.
C4_ExecErrorResumes ==
    outcome["execute"] = "raised" =>
        /\ pc = "AwaitingInput"
        /\ printed = <<"Error executing query">>
        /\ outcome["analyze"] = "none"
        /\ outcome["speak"] = "none"
        /\ conn = "open"
        /\ closeCount = 0
        /\ (turns < MaxTurns => ENABLED ReadInput)

W_C4 == outcome["execute"] = "raised" /\ pc = "AwaitingInput" /\ sql_query \in dbLog

\* C5: when the interpretation call fails, only the turn is lost: the
\* session is not terminated and the loop is back in AwaitingInput.
C5_InterpFailureResumes ==
    outcome["analyze"] = "raised" =>
        (pc = "AwaitingInput" /\ conn = "open" /\ closeCount = 0)

\* C6: in a turn that reached Rendering, whether speech succeeded or failed,
\* the answer is printed and the loop is back in AwaitingInput.
C6_AnswerPrintedAnyway ==
    outcome["speak"] # "none" =>
        (pc = "AwaitingInput" /\ Printed("Output: " \o answer) /\ conn = "open")

\* C7: when the synthesizer cannot produce a usable statement, the failure
\* of the generation call included, it yields the sentinel rather than
\* raising; the failure is reported and the loop is back in AwaitingInput
\* with no execution, interpretation, rendering or termination.
C7_SynthFailureResumes ==
    /\ outcome["generate"] # "raised"
    /\ (outcome["generate"] = "returned" /\ sql_query = Failed) =>
          /\ pc = "AwaitingInput"
          /\ Printed("Not able to generate SQL query")
          /\ outcome["execute"] = "none"
          /\ outcome["analyze"] = "none"
          /\ outcome["speak"] = "none"
          /\ conn = "open"

\* C8: at the prompt, the word exit in any casing leads straight to closing,
\* with no synthesis, execution, interpretation or rendering call in that
\* turn; the handle is then released exactly once and no step follows (no
\* further prompt); any other input leads to Synthesizing.
C8_ExitClosesOnce ==
    [][ /\ pc = "AwaitingInput" =>
              IF ExitAnyCase(user_input')
              THEN pc' = "Closing" /\ outcome' = NoCalls /\ dbLog' = dbLog
              ELSE pc' = "Synthesizing"
        /\ pc = "Closing" =>
              /\ pc' = "Closed"
              /\ conn = "open" /\ conn' = "closed"
              /\ closeCount' = 1
              /\ outcome' = NoCalls /\ dbLog' = dbLog /\ turns' = turns
        /\ pc # "Closed" ]_vars

W_C8 == pc = "Closed" /\ user_input = <<"e","X","i","T">> /\ closeCount = 1

\* C9: an execution that succeeds with zero rows is not an error: the loop
\* goes on to Interpreting with the empty result and the same question, and
\* prints no execution error.
C9_EmptyResultInterpreted ==
    [][ (pc = "Executing" /\ outcome'["execute"] = "returned" /\ result'.rows = <<>>) =>
            /\ pc' = "Interpreting"
            /\ result' = Rows(<<>>)
            /\ user_input' = user_input
            /\ printed' = printed ]_vars

W_C9 == pc = "Interpreting" /\ outcome["execute"] = "returned" /\ result = Rows(<<>>)

\* C10: the statement returned by generate_sql_query holds no run of three
\* backticks, and a response made of a fence opener (three backticks, an
\* optional language tag, a line break), a statement and a fence closer
\* yields the statement alone, surrounding white space aside.
C10_FenceStripped ==
    pc = "Substituted" =>
        /\ ~Contains(sql_query, Fence)
        /\ \A tag \in FenceTags :
              response = Fence \o tag \o <<NL>> \o Select1 \o Fence
                 => Trim(sql_query) = Select1

\* the first half of C10 alone
NoFenceRemains == pc = "Substituted" => ~Contains(sql_query, Fence)

\* the second half of C10 for the one opener the pattern names
SqlFenceUnwrapped ==
    (pc = "Substituted" /\ response = FenceSql \o Select1 \o Fence) => sql_query = Select1

====
